---- MODULE Spec2Model ----
(***************************************************************************)
(* hdbc: prints one integer literal in hexadecimal, decimal and binary.    *)
(* The model follows src/src/main.rs.  Text is a sequence of one-character *)
(* strings.  A u64 is four 16-bit limbs, least significant first, so that  *)
(* every intermediate product stays far below TLC's 32-bit integer range   *)
(* while the 64-bit width, and overflow out of it, are kept exactly.       *)
(***************************************************************************)
EXTENDS Integers, Sequences, FiniteSets, TLC

VARIABLES argv, pc, cfg, pending, rendered, stdout, exitCode

vars == <<argv, pc, cfg, pending, rendered, stdout, exitCode>>

(***************************************************************************)
(* Bounds of the enumerated inputs.                                        *)
(***************************************************************************)
\* longest literal body enumerated exhaustively over BodyAlphabet
MaxBodyLen == 2
\* most comma-separated tokens in an enumerated --repr list
MaxTokens == 3

(***************************************************************************)
(* u64 arithmetic on limbs.                                                *)
(***************************************************************************)
LimbBase == 65536
Zero == <<0, 0, 0, 0>>

RECURSIVE Pow2(_)
Pow2(n) == IF n = 0 THEN 1 ELSE 2 * Pow2(n - 1)

\* v * m + a for small m and a, with the carry out of bit 63
MulAdd(v, m, a) ==
    LET l0 == v[1] * m + a
        l1 == v[2] * m + (l0 \div LimbBase)
        l2 == v[3] * m + (l1 \div LimbBase)
        l3 == v[4] * m + (l2 \div LimbBase)
    IN [val |-> <<l0 % LimbBase, l1 % LimbBase, l2 % LimbBase, l3 % LimbBase>>,
        carry |-> l3 \div LimbBase]

Ok(v) == [ok |-> TRUE, val |-> v]
Err == [ok |-> FALSE, val |-> Zero]

\* u64::checked_mul by the radix: None (Err) when the product leaves 64 bits
checked_mul(v, m) ==
    LET r == MulAdd(v, m, 0) IN IF r.carry = 0 THEN Ok(r.val) ELSE Err

\* u64::checked_add of one digit
checked_add(v, a) ==
    LET r == MulAdd(v, 1, a) IN IF r.carry = 0 THEN Ok(r.val) ELSE Err

\* v / d and v % d for a small divisor d, long division from the top limb
DivMod(v, d) ==
    LET c4 == v[4]
        c3 == (c4 % d) * LimbBase + v[3]
        c2 == (c3 % d) * LimbBase + v[2]
        c1 == (c2 % d) * LimbBase + v[1]
    IN [quot |-> <<c1 \div d, c2 \div d, c3 \div d, c4 \div d>>, rem |-> c1 % d]

\* value & 1 << i != 0
BitSet(v, i) == ((v[(i \div 16) + 1] \div Pow2(i % 16)) % 2) = 1

(***************************************************************************)
(* Characters.                                                             *)
(***************************************************************************)
LowerDigits == <<"0", "1", "2", "3", "4", "5", "6", "7", "8", "9",
                 "a", "b", "c", "d", "e", "f">>
UpperDigits == <<"0", "1", "2", "3", "4", "5", "6", "7", "8", "9",
                 "A", "B", "C", "D", "E", "F">>
UpperLetters == <<"A", "B", "C", "D", "E", "F", "G", "H", "I", "J", "K", "L", "M",
                  "N", "O", "P", "Q", "R", "S", "T", "U", "V", "W", "X", "Y", "Z">>
LowerLetters == <<"a", "b", "c", "d", "e", "f", "g", "h", "i", "j", "k", "l", "m",
                  "n", "o", "p", "q", "r", "s", "t", "u", "v", "w", "x", "y", "z">>

IndexIn(c, seq) ==
    IF \E i \in 1..Len(seq) : seq[i] = c
    THEN CHOOSE i \in 1..Len(seq) : seq[i] = c
    ELSE 0

\* char::to_digit(radix): the digit's value, or -1 for None; letters in either case
to_digit(c, radix) ==
    LET lo == IndexIn(c, LowerDigits)
        up == IndexIn(c, UpperDigits)
        d == IF lo > 0 THEN lo - 1 ELSE up - 1
    IN IF d >= 0 /\ d < radix THEN d ELSE -1

\* u8::to_ascii_lowercase
to_ascii_lowercase(c) ==
    LET k == IndexIn(c, UpperLetters) IN IF k > 0 THEN LowerLetters[k] ELSE c

\* str::eq_ignore_ascii_case
eq_ignore_ascii_case(s, t) ==
    /\ Len(s) = Len(t)
    /\ \A i \in 1..Len(s) : to_ascii_lowercase(s[i]) = to_ascii_lowercase(t[i])

\* str::starts_with
starts_with(s, p) == Len(s) >= Len(p) /\ SubSeq(s, 1, Len(p)) = p

\* &value[2..]
Skip(s, n) == SubSeq(s, n + 1, Len(s))

\* str::split on one separator character: always at least one piece
RECURSIVE split(_, _)
split(s, sep) ==
    IF \A i \in 1..Len(s) : s[i] # sep
    THEN <<s>>
    ELSE LET k == CHOOSE i \in 1..Len(s) :
                      s[i] = sep /\ \A j \in 1..(i - 1) : s[j] # sep
         IN <<SubSeq(s, 1, k - 1)>> \o split(Skip(s, k), sep)

(***************************************************************************)
(* u64::from_str_radix, called at main.rs:90, 92 and 94.                   *)
(***************************************************************************)
\* A digit loop that adds the digit before it multiplies.
DigitStep_add_first(acc, c, radix) ==
    IF ~acc.ok THEN Err
    ELSE LET x == to_digit(c, radix)
             sum == checked_add(acc.val, IF x < 0 THEN 0 ELSE x)
         IN IF x < 0 THEN Err
            ELSE IF ~sum.ok THEN Err
            ELSE checked_mul(sum.val, radix)

\* one round of the digit loop: result = result * radix + digit, both checked
DigitStep(acc, c, radix) ==
    IF ~acc.ok THEN Err
    ELSE LET mul == checked_mul(acc.val, radix)
             x == to_digit(c, radix)
         IN IF x < 0 THEN Err
            ELSE IF ~mul.ok THEN Err
            ELSE checked_add(mul.val, x)

\* the loop over digits[lo..hi], left to right, ending at the first error;
\* the range is halved only to keep the evaluation shallow
RECURSIVE DigitLoop(_, _, _, _, _)
DigitLoop(digits, radix, lo, hi, acc) ==
    IF lo > hi THEN acc
    ELSE IF lo = hi THEN DigitStep(acc, digits[lo], radix)
    ELSE LET mid == (lo + hi) \div 2
             left == DigitLoop(digits, radix, lo, mid, acc)
         IN IF ~left.ok THEN Err
            ELSE DigitLoop(digits, radix, mid + 1, hi, left)

ParseDigits(digits, radix, acc) == DigitLoop(digits, radix, 1, Len(digits), Ok(acc))

\* u64::from_str_radix: empty input fails; a lone sign fails; one leading '+'
\* is skipped; '-' is no sign of an unsigned type and fails as an invalid digit.
from_str_radix(src, radix) ==
    IF src = <<>> THEN Err
    ELSE IF Len(src) = 1 /\ src[1] \in {"+", "-"} THEN Err
    ELSE IF src[1] = "+" THEN ParseDigits(Tail(src), radix, Zero)
    ELSE ParseDigits(src, radix, Zero)

MultiReprU64Parser_parse_ref(raw) ==
    IF starts_with(raw, <<"0", "b">>)
    THEN from_str_radix(Skip(raw, 2), 2)
    ELSE IF starts_with(raw, <<"0", "x">>)
    THEN from_str_radix(Skip(raw, 2), 16)
    ELSE from_str_radix(raw, 10)

(***************************************************************************)
(* The value enums and their parsers.                                      *)
(***************************************************************************)
Representation == {"B", "D", "H"}
Format == {"U32", "U64"}

\* `format as u64`
FormatBits(format) == IF format = "U32" THEN 32 ELSE 64

\* the name clap's ValueEnum derive gives each variant
ReprName(r) == CASE r = "B" -> <<"b">> [] r = "D" -> <<"d">> [] r = "H" -> <<"h">>
FormatName(f) == IF f = "U32" THEN <<"u", "3", "2">> ELSE <<"u", "6", "4">>

\* <Representation as ValueEnum>::from_str(arg, ignore_case)
Representation_from_str(arg, ignore_case) ==
    LET hits == {r \in Representation :
                    IF ignore_case THEN eq_ignore_ascii_case(ReprName(r), arg)
                    ELSE ReprName(r) = arg}
    IN IF hits = {} THEN [ok |-> FALSE, val |-> "B"]
       ELSE [ok |-> TRUE, val |-> CHOOSE r \in hits : TRUE]

\* the derived value parser of `format: Format`: exact names only
Format_from_str(arg) ==
    LET hits == {f \in Format : FormatName(f) = arg}
    IN IF hits = {} THEN [ok |-> FALSE, val |-> "U32"]
       ELSE [ok |-> TRUE, val |-> CHOOSE f \in hits : TRUE]

RECURSIVE InsertAll(_, _)
InsertAll(args, set) ==
    IF args = <<>> THEN [ok |-> TRUE, val |-> set]
    ELSE LET arg_enum == Representation_from_str(Head(args), TRUE)
         IN IF ~arg_enum.ok THEN [ok |-> FALSE, val |-> {}]
            ELSE InsertAll(Tail(args), set \cup {arg_enum.val})

\* A set parser that skips the tokens it does not know instead of failing.
RECURSIVE InsertKnown(_, _)
InsertKnown(args, set) ==
    IF args = <<>> THEN [ok |-> TRUE, val |-> set]
    ELSE LET arg_enum == Representation_from_str(Head(args), TRUE)
         IN InsertKnown(Tail(args),
                        IF arg_enum.ok THEN set \cup {arg_enum.val} ELSE set)

EnumSetParser_parse_ref_lenient(raw, sep_char) ==
    InsertKnown(split(raw, sep_char), {})

EnumSetParser_parse_ref(raw, sep_char) ==
    InsertAll(split(raw, sep_char), {})

(***************************************************************************)
(* Rendering.  Each display function returns the text it writes.           *)
(***************************************************************************)
Rep(c, n) == [i \in 1..n |-> c]

\* A formatter that writes the digits above 9 in upper case.
RECURSIVE fmt_u64_upper(_, _)
fmt_u64_upper(v, base) ==
    LET qr == DivMod(v, base)
        c == UpperDigits[qr.rem + 1]
    IN IF qr.quot = Zero THEN <<c>> ELSE fmt_u64_upper(qr.quot, base) \o <<c>>

\* Display / LowerHex of a u64: digits from the least significant one, at
\* least one digit
RECURSIVE fmt_u64(_, _)
fmt_u64(v, base) ==
    LET qr == DivMod(v, base)
        c == LowerDigits[qr.rem + 1]
    IN IF qr.quot = Zero THEN <<c>> ELSE fmt_u64(qr.quot, base) \o <<c>>

\* the width of {value:39}: numbers are right-aligned, padded with spaces
Padded(s, width) == IF Len(s) >= width THEN s ELSE Rep(" ", width - Len(s)) \o s

BitChar(value, i) == IF BitSet(value, i) THEN "1" ELSE "0"

\* the concatenation of a sequence of texts, halved to keep evaluation shallow
RECURSIVE Concat(_)
Concat(ss) ==
    IF Len(ss) = 0 THEN <<>>
    ELSE IF Len(ss) = 1 THEN ss[1]
    ELSE LET h == Len(ss) \div 2
         IN Concat(SubSeq(ss, 1, h)) \o Concat(SubSeq(ss, h + 1, Len(ss)))

\* A grouping that puts the space in front of every fourth bit instead.
GroupedBits_space_first(value, hi, lo) ==
    Concat([k \in 1..(hi - lo + 1) |->
               LET i == hi + 1 - k
               IN (IF i % 4 = 3 THEN <<" ">> ELSE <<>>) \o <<BitChar(value, i)>>])

\* for i in (lo..=hi).rev() { print bit i; if i % 4 == 0 { print " " } }
GroupedBits(value, hi, lo) ==
    Concat([k \in 1..(hi - lo + 1) |->
               LET i == hi + 1 - k
               IN <<BitChar(value, i)>> \o (IF i % 4 = 0 THEN <<" ">> ELSE <<>>)])

\* A bit loop that forgets .rev() and starts at bit 0.
PlainBits_ascending(value, n) ==
    Concat([k \in 1..n |-> LET i == k - 1 IN <<BitChar(value, i)>>])

\* (0..n).rev().for_each(|i| print bit i)
PlainBits(value, n) ==
    Concat([k \in 1..n |-> LET i == n - k IN <<BitChar(value, i)>>])

RulerHigh ==
    <<" ", " ", " ", " ", " ", " ", " ", "6", "0", " ", " ", " ", "5", "6",
      " ", " ", " ", "5", "2", " ", " ", " ", "4", "8", " ", " ", " ", "4",
      "4", " ", " ", " ", "4", "0", " ", " ", " ", "3", "6", " ", " ", " ",
      "3", "2">>
RulerLow ==
    <<" ", " ", " ", " ", " ", " ", " ", "2", "8", " ", " ", " ", "2", "4",
      " ", " ", " ", "2", "0", " ", " ", " ", "1", "6", " ", " ", " ", "1",
      "2", " ", " ", " ", " ", "8", " ", " ", " ", " ", "4", " ", " ", " ",
      " ", "0">>
NL == <<"\n">>
BinLabel == <<"b", "i", "n", ":", " ">>
DecLabel == <<"d", "e", "c", ":", " ">>
HexLabel == <<"h", "e", "x", ":", " ">>

\* A detailed view that prints the high block whatever the format.
display_detailed_always_high(value, repr, format) ==
    CASE repr = "B" ->
           BinLabel
           \o GroupedBits(value, 63, 32) \o NL \o RulerHigh \o NL \o Rep(" ", 5)
           \o GroupedBits(value, 31, 0) \o NL \o RulerLow \o NL
      [] repr = "D" -> DecLabel \o Padded(fmt_u64(value, 10), 39) \o NL
      [] repr = "H" -> HexLabel \o Padded(fmt_u64(value, 16), 39) \o NL

display_detailed(value, repr, format) ==
    CASE repr = "B" ->
           BinLabel
           \o (IF format = "U64"
               THEN GroupedBits(value, 63, 32) \o NL \o RulerHigh \o NL \o Rep(" ", 5)
               ELSE <<>>)
           \o GroupedBits(value, 31, 0) \o NL \o RulerLow \o NL
      [] repr = "D" -> DecLabel \o Padded(fmt_u64(value, 10), 39) \o NL
      [] repr = "H" -> HexLabel \o Padded(fmt_u64(value, 16), 39) \o NL

\* A simplified view that cuts the value to the selected width for every
\* representation, not only for the binary one.
display_simplified_masked(value, repr, format) ==
    LET shown == IF format = "U32" THEN <<value[1], value[2], 0, 0>> ELSE value
    IN (CASE repr = "B" -> PlainBits(shown, FormatBits(format))
          [] repr = "D" -> fmt_u64(shown, 10)
          [] repr = "H" -> fmt_u64(shown, 16))
       \o NL

display_simplified(value, repr, format) ==
    (CASE repr = "B" -> PlainBits(value, FormatBits(format))
       [] repr = "D" -> fmt_u64(value, 10)
       [] repr = "H" -> fmt_u64(value, 16))
    \o NL

(***************************************************************************)
(* The command line.  An option or the positional literal is given with a  *)
(* token or left out; info is the -h/--help or -V/--version request that   *)
(* the Parser derive and #[command(version)] add.                          *)
(***************************************************************************)
NoArg == [given |-> FALSE, tok |-> <<>>]
Arg(t) == [given |-> TRUE, tok |-> t]

DefaultFormat == <<"u", "3", "2">>
DefaultRepr == <<"h", ",", "d", ",", "b">>
NoCfg == [format |-> "U32", representation |-> {}, simplified |-> FALSE,
          value |-> Zero]

\* stand-ins for the help and version texts the argument parser generates
HelpText == <<"U", "s", "a", "g", "e", ":", "\n">>
VersionText == <<"h", "d", "b", "c", "\n">>

\* A parser that takes a missing literal for 0 instead of reporting it.
AppConfig_parse_default_value(a) ==
    LET format == Format_from_str(IF a.format.given THEN a.format.tok
                                  ELSE DefaultFormat)
        representation == EnumSetParser_parse_ref(
                              IF a.repr.given THEN a.repr.tok ELSE DefaultRepr, ",")
        value == IF a.value.given THEN MultiReprU64Parser_parse_ref(a.value.tok)
                 ELSE Ok(Zero)
        valuesOk == format.ok /\ representation.ok /\ value.ok
        parsed == [kind |-> "ok",
                   cfg |-> [format |-> format.val,
                            representation |-> representation.val,
                            simplified |-> a.simplified,
                            value |-> value.val]]
        error == [kind |-> "error", cfg |-> NoCfg]
        info == [kind |-> a.info, cfg |-> NoCfg]
    IN IF a.info # "none"
       THEN (IF valuesOk THEN {info} ELSE {info, error})
       ELSE IF valuesOk THEN {parsed} ELSE {error}

\* The outcomes AppConfig::parse() can have on a command line.  Values are
\* parsed as the arguments are met, left to right, and a help or version
\* flag ends parsing where it stands: with such a flag and a bad value both
\* present, which one wins depends on their order, which argv leaves open.
\* A missing literal is only reported once every argument has been read.
AppConfig_parse(a) ==
    LET format == Format_from_str(IF a.format.given THEN a.format.tok
                                  ELSE DefaultFormat)
        representation == EnumSetParser_parse_ref(
                              IF a.repr.given THEN a.repr.tok ELSE DefaultRepr, ",")
        value == IF a.value.given THEN MultiReprU64Parser_parse_ref(a.value.tok)
                 ELSE Err
        valuesOk == format.ok /\ representation.ok /\ (a.value.given => value.ok)
        parsed == [kind |-> "ok",
                   cfg |-> [format |-> format.val,
                            representation |-> representation.val,
                            simplified |-> a.simplified,
                            value |-> value.val]]
        error == [kind |-> "error", cfg |-> NoCfg]
        info == [kind |-> a.info, cfg |-> NoCfg]
    IN IF a.info # "none"
       THEN (IF valuesOk THEN {info} ELSE {info, error})
       ELSE IF valuesOk /\ a.value.given THEN {parsed} ELSE {error}

(***************************************************************************)
(* Enumerated inputs.                                                      *)
(***************************************************************************)
Strs(alphabet, n) == UNION {[1..k -> alphabet] : k \in 0..n}

RECURSIVE Join(_, _)
Join(toks, sep) ==
    IF Len(toks) = 1 THEN toks[1] ELSE toks[1] \o <<sep>> \o Join(Tail(toks), sep)

ReprTokens == {<<"h">>, <<"H">>, <<"d">>, <<"b">>, <<"x">>, <<>>}
ReprLists ==
    {Join(toks, ",") : toks \in UNION {[1..k -> ReprTokens] : k \in 1..MaxTokens}}

FormatArgs == {NoArg, Arg(<<"u", "6", "4">>), Arg(<<"U", "3", "2">>)}
ReprArgs == {NoArg} \cup {Arg(l) : l \in ReprLists}
MainLiterals ==
    {<<"4", "2">>, <<"0", "b", "1", "2">>,
     <<"0", "x">> \o Rep("f", 8) \o Rep("0", 6) \o <<"2", "a">>}

CommandLines ==
    [format : FormatArgs, repr : ReprArgs, simplified : BOOLEAN,
     value : {NoArg} \cup {Arg(l) : l \in MainLiterals},
     info : {"none", "help", "version"}]

BodyAlphabet == {"0", "1", "9", "f", "g", "+"}
LongBodies ==
    {<<"1", "8", "4", "4", "6", "7", "4", "4", "0", "7", "3", "7", "0", "9",
       "5", "5", "1", "6", "1", "5">>,
     <<"1", "8", "4", "4", "6", "7", "4", "4", "0", "7", "3", "7", "0", "9",
       "5", "5", "1", "6", "1", "6">>,
     <<"0", "0", "0", "1", "8", "4", "4", "6", "7", "4", "4", "0", "7", "3",
       "7", "0", "9", "5", "5", "1", "6", "1", "5">>,
     Rep("9", 20), Rep("0", 3), <<"0", "0", "7">>, <<"4", "2">>,
     <<"4", "2", "9", "4", "9", "6", "7", "2", "9", "6">>,
     Rep("f", 16), <<"1">> \o Rep("0", 16), Rep("F", 16),
     <<"8">> \o Rep("0", 14) \o <<"1">>,
     <<"D", "e", "a", "d", "B", "e", "e", "f">>,
     Rep("1", 64), <<"1">> \o Rep("0", 64), Rep("0", 70) \o <<"1", "0", "1">>,
     <<"F", "F">>, <<"1", " ">>, <<"1", "2">>, <<"1", "-", "1">>}
Prefixes ==
    {<<>>, <<"0", "b">>, <<"0", "x">>, <<"0", "X">>, <<"+">>, <<"-">>, <<" ">>}
Literals == {p \o b : p \in Prefixes, b \in Strs(BodyAlphabet, MaxBodyLen) \cup LongBodies}

LiteralCommandLines ==
    [format : {NoArg, Arg(<<"u", "3", "2">>), Arg(<<"u", "6", "4">>)},
     repr : {Arg(<<"h">>), Arg(<<"d">>), Arg(<<"b">>)},
     simplified : BOOLEAN,
     value : {Arg(l) : l \in Literals},
     info : {"none"}]

(***************************************************************************)
(* main.                                                                   *)
(***************************************************************************)
Start(lines) ==
    /\ argv \in lines
    /\ pc = "start"
    /\ cfg = NoCfg
    /\ pending = {}
    /\ rendered = <<>>
    /\ stdout = <<>>
    /\ exitCode = -1

Init == Start(CommandLines)

InitLiteral == Start(LiteralCommandLines)

\* let cfg = AppConfig::parse(): on an error the process exits with status 2
\* and nothing on stdout; help and version go to stdout with status 0
Parse ==
    /\ pc = "start"
    /\ \E o \in AppConfig_parse(argv) :
          /\ cfg' = o.cfg
          /\ pending' = o.cfg.representation
          /\ pc' = IF o.kind = "ok" THEN "render" ELSE "exit"
          /\ exitCode' = CASE o.kind = "ok" -> exitCode
                           [] o.kind = "error" -> 2
                           [] OTHER -> 0
          /\ stdout' = CASE o.kind = "help" -> HelpText
                         [] o.kind = "version" -> VersionText
                         [] OTHER -> stdout
    /\ UNCHANGED <<argv, rendered>>

\* one iteration of `for repr in cfg.representation`: a HashSet with the
\* default RandomState yields its members in an order that differs from run
\* to run, so any member not yet visited can be next
Render ==
    /\ pc = "render"
    /\ \E repr \in pending :
          LET out == IF cfg.simplified
                     THEN display_simplified(cfg.value, repr, cfg.format)
                     ELSE display_detailed(cfg.value, repr, cfg.format)
          IN /\ stdout' = stdout \o out
             /\ rendered' = Append(rendered, [repr |-> repr, out |-> out])
             /\ pending' = pending \ {repr}
    /\ UNCHANGED <<argv, pc, cfg, exitCode>>

\* the loop is over and main returns
Return ==
    /\ pc = "render"
    /\ pending = {}
    /\ pc' = "exit"
    /\ exitCode' = 0
    /\ UNCHANGED <<argv, cfg, pending, rendered, stdout>>

Next == Parse \/ Render \/ Return

Spec == Init /\ [][Next]_vars

SpecLiteral == InitLiteral /\ [][Next]_vars

(***************************************************************************)
(* Vocabulary of the properties: what a literal denotes, read off its      *)
(* characters without the decoder.                                         *)
(***************************************************************************)
BinaryPrefix == <<"0", "b">>
HexPrefix == <<"0", "x">>

BaseOf(tok) ==
    IF starts_with(tok, BinaryPrefix) THEN 2
    ELSE IF starts_with(tok, HexPrefix) THEN 16 ELSE 10

Remainder(tok) == IF BaseOf(tok) = 10 THEN tok ELSE Skip(tok, 2)

DigitsOfBase(base) ==
    CASE base = 2 -> {"0", "1"}
      [] base = 10 -> {"0", "1", "2", "3", "4", "5", "6", "7", "8", "9"}
      [] base = 16 -> {"0", "1", "2", "3", "4", "5", "6", "7", "8", "9",
                       "a", "b", "c", "d", "e", "f", "A", "B", "C", "D", "E", "F"}

AllDigits(s, base) == \A i \in 1..Len(s) : s[i] \in DigitsOfBase(base)

\* s without its leading zeros (empty when s is all zeros)
StripZeros(s) ==
    LET nz == {i \in 1..Len(s) : s[i] # "0"}
    IN IF nz = {} THEN <<>>
       ELSE SubSeq(s, CHOOSE i \in nz : \A j \in nz : i <= j, Len(s))

\* 2^64 - 1 written in each base
MaxDigits(base) ==
    CASE base = 2 -> Rep("1", 64)
      [] base = 16 -> Rep("f", 16)
      [] base = 10 -> <<"1", "8", "4", "4", "6", "7", "4", "4", "0", "7", "3",
                        "7", "0", "9", "5", "5", "1", "6", "1", "5">>

DigitRank(c) == IndexIn(to_ascii_lowercase(c), LowerDigits)

\* the digit string s denotes a number above 2^64 - 1
AboveMax(s, base) ==
    LET t == StripZeros(s)
        m == MaxDigits(base)
    IN \/ Len(t) > Len(m)
       \/ /\ Len(t) = Len(m)
          /\ \E i \in 1..Len(t) :
                /\ DigitRank(t[i]) > DigitRank(m[i])
                /\ \A j \in 1..(i - 1) : t[j] = m[j] \/ DigitRank(t[j]) = DigitRank(m[j])

\* the tokens the literal decoder is to refuse
Malformed(tok) ==
    LET rem == Remainder(tok)
        base == BaseOf(tok)
    IN \/ rem = <<>>
       \/ ~AllDigits(rem, base)
       \/ AboveMax(rem, base)

\* the width the command line asks for: --format u64, or the default u32
AskedWidth ==
    IF argv.format.given /\ argv.format.tok = <<"u", "6", "4">> THEN 64 ELSE 32

Decoded == pc = "render" \/ (pc = "exit" /\ exitCode = 0)
Refused == pc = "exit" /\ exitCode # 0 /\ rendered = <<>> /\ stdout = <<>>

\* the text of a line-terminated output, without its newline
Chomp(out) == SubSeq(out, 1, Len(out) - 1)
EndsLine(out) == Len(out) >= 1 /\ out[Len(out)] = "\n"

Shown(r) == {k \in 1..Len(rendered) : rendered[k].repr = r}

(***************************************************************************)
(* C1: literal decoding fails for every token whose remainder, after the   *)
(* 0b or 0x prefix (or none, base 10), is empty, holds a character that is *)
(* not a digit of the selected base (signs and whitespace included), or    *)
(* denotes a value above 2^64-1; no such token is ever decoded.            *)
(***************************************************************************)
C1_MalformedLiteralRefused ==
    (pc # "start" /\ argv.value.given /\ Malformed(argv.value.tok)) => Refused

\* what the decoder does refuse: the same tokens, but for one '+' in front
\* of the digits of the remainder
PlusSigned(tok) ==
    LET rem == Remainder(tok)
    IN /\ Len(rem) >= 2
       /\ rem[1] = "+"
       /\ AllDigits(Tail(rem), BaseOf(tok))
       /\ ~AboveMax(Tail(rem), BaseOf(tok))

C1_RefusedButForPlus ==
    (pc # "start" /\ argv.value.given)
        => (Refused <=> (Malformed(argv.value.tok) /\ ~PlusSigned(argv.value.tok)))

(***************************************************************************)
(* C2: simplified binary rendering prints exactly bit_width characters     *)
(* from {0,1} and a newline, most significant bit first: the k-th          *)
(* character from the left is bit (bit_width-1-k) of the value; 32         *)
(* characters for u32, 64 for u64.  For a literal written in binary the    *)
(* output is that literal's digits, zero-extended or cut to the width.     *)
(***************************************************************************)
\* digit k (from the left, from 0) of the w-wide two's-complement pattern of
\* the number a binary digit string denotes
PatternDigit(digits, w, k) ==
    LET pos == Len(digits) - w + k + 1
    IN IF pos >= 1 THEN digits[pos] ELSE "0"

C2_SimplifiedBinary ==
    \A n \in Shown("B") :
        cfg.simplified =>
            LET out == rendered[n].out
                w == FormatBits(cfg.format)
                tok == argv.value.tok
            IN /\ w = AskedWidth
               /\ Len(out) = w + 1
               /\ out[w + 1] = "\n"
               /\ \A k \in 0..(w - 1) :
                     /\ out[k + 1] \in {"0", "1"}
                     /\ (out[k + 1] = "1") <=> BitSet(cfg.value, w - 1 - k)
               /\ (BaseOf(tok) = 2 /\ AllDigits(Remainder(tok), 2))
                     => \A k \in 0..(w - 1) :
                            out[k + 1] = PatternDigit(Remainder(tok), w, k)

C2_Witness ==
    /\ pc = "exit"
    /\ exitCode = 0
    /\ argv.value.tok = <<"0", "x", "F", "F">>
    /\ argv.format = Arg(<<"u", "3", "2">>)
    /\ cfg.simplified
    /\ Len(rendered) = 1
    /\ rendered[1].repr = "B"
    /\ stdout = Rep("0", 24) \o Rep("1", 8) \o NL

(***************************************************************************)
(* C3: hex round trip.  The simplified hexadecimal output of a value is    *)
(* made of lowercase hex digits only, without 0x and without padding, and  *)
(* decoding it with 0x put back in front yields exactly the value.         *)
(***************************************************************************)
LowerHexDigits ==
    {"0", "1", "2", "3", "4", "5", "6", "7", "8", "9", "a", "b", "c", "d", "e", "f"}

C3_HexRoundTrip ==
    \A n \in Shown("H") :
        cfg.simplified =>
            LET out == rendered[n].out
                text == Chomp(out)
            IN /\ EndsLine(out)
               /\ Len(text) >= 1
               /\ \A i \in 1..Len(text) : text[i] \in LowerHexDigits
               /\ (text[1] = "0" => Len(text) = 1)
               /\ MultiReprU64Parser_parse_ref(HexPrefix \o text) = Ok(cfg.value)

C3_Witness ==
    /\ pc = "exit"
    /\ exitCode = 0
    /\ cfg.simplified
    /\ argv.value.tok = <<"0", "x", "D", "e", "a", "d", "B", "e", "e", "f">>
    /\ Len(rendered) = 1
    /\ rendered[1].repr = "H"
    /\ stdout = <<"d", "e", "a", "d", "b", "e", "e", "f", "\n">>

(***************************************************************************)
(* C4: decimal round trip.  For a valid decimal string s (digits only, at  *)
(* most 2^64-1, leading zeros allowed) decoding s and rendering the value  *)
(* in simplified decimal prints s without its leading zeros, and "0" when  *)
(* s is all zeros.                                                         *)
(***************************************************************************)
ValidDecimal(s) == Len(s) >= 1 /\ AllDigits(s, 10) /\ ~AboveMax(s, 10)

Canonical(s) == IF StripZeros(s) = <<>> THEN <<"0">> ELSE StripZeros(s)

C4_DecimalRoundTrip ==
    (argv.value.given /\ ValidDecimal(argv.value.tok)) =>
        /\ pc # "start" => Decoded
        /\ \A n \in Shown("D") :
              cfg.simplified => rendered[n].out = Canonical(argv.value.tok) \o NL

C4_Witness ==
    /\ pc = "exit"
    /\ exitCode = 0
    /\ cfg.simplified
    /\ argv.value.tok = <<"0", "0", "0", "1", "8", "4", "4", "6", "7", "4", "4", "0",
                          "7", "3", "7", "0", "9", "5", "5", "1", "6", "1", "5">>
    /\ Len(rendered) = 1
    /\ rendered[1].repr = "D"
    /\ stdout = MaxDigits(10) \o NL

(***************************************************************************)
(* Lines and words of an output.                                           *)
(***************************************************************************)
\* the lines of a text whose every line ends with a newline
Lines(out) == LET parts == split(out, "\n") IN SubSeq(parts, 1, Len(parts) - 1)

\* the maximal runs of non-space characters of a line, left to right
Words(line) ==
    LET starts == {i \in 1..Len(line) :
                      line[i] # " " /\ (i = 1 \/ line[i - 1] = " ")}
        start(k) == CHOOSE i \in starts : Cardinality({j \in starts : j < i}) = k - 1
        stop(i) == CHOOSE j \in i..Len(line) :
                       /\ \A m \in i..j : line[m] # " "
                       /\ (j = Len(line) \/ line[j + 1] = " ")
    IN [k \in 1..Cardinality(starts) |-> SubSeq(line, start(k), stop(start(k)))]

\* a line without its spaces
Squeezed(line) ==
    LET keep == {i \in 1..Len(line) : line[i] # " "}
        at(k) == CHOOSE i \in keep : Cardinality({j \in keep : j < i}) = k - 1
    IN [k \in 1..Cardinality(keep) |-> line[at(k)]]

\* bits hi..hi-31 of the value as 32 characters, most significant first
BitsFrom(value, hi) == [k \in 1..32 |-> IF BitSet(value, hi + 1 - k) THEN "1" ELSE "0"]

HighLabels == << <<"6", "0">>, <<"5", "6">>, <<"5", "2">>, <<"4", "8">>,
                 <<"4", "4">>, <<"4", "0">>, <<"3", "6">>, <<"3", "2">> >>
LowLabels == << <<"2", "8">>, <<"2", "4">>, <<"2", "0">>, <<"1", "6">>,
                <<"1", "2">>, <<"8">>, <<"4">>, <<"0">> >>

DetailedBinary == {n \in Shown("B") : ~cfg.simplified}

(***************************************************************************)
(* C8: detailed binary block structure.  With format=u64 the block is      *)
(* exactly four lines: the bit-group line of bits 63..32, the ruler        *)
(* 60 56 52 48 44 40 36 32, the bit-group line of bits 31..0 indented to   *)
(* the label column, and the ruler 28 24 20 16 12 8 4 0.  With format=u32  *)
(* it is exactly two lines, the bits 31..0 line and its ruler, and never   *)
(* the high block.                                                         *)
(***************************************************************************)
C8_DetailedBinaryBlock ==
    \A n \in DetailedBinary :
        LET out == rendered[n].out
            ls == Lines(out)
        IN /\ EndsLine(out)
           /\ IF AskedWidth = 64
              THEN /\ Len(ls) = 4
                   /\ SubSeq(ls[1], 1, 5) = BinLabel
                   /\ Squeezed(Skip(ls[1], 5)) = BitsFrom(cfg.value, 63)
                   /\ Words(ls[2]) = HighLabels
                   /\ SubSeq(ls[3], 1, 5) = Rep(" ", 5)
                   /\ Squeezed(ls[3]) = BitsFrom(cfg.value, 31)
                   /\ Words(ls[4]) = LowLabels
              ELSE /\ Len(ls) = 2
                   /\ SubSeq(ls[1], 1, 5) = BinLabel
                   /\ Squeezed(Skip(ls[1], 5)) = BitsFrom(cfg.value, 31)
                   /\ Words(ls[2]) = LowLabels

C8_Witness ==
    /\ pc = "exit"
    /\ exitCode = 0
    /\ ~cfg.simplified
    /\ AskedWidth = 64
    /\ argv.value.tok = <<"0", "x", "8">> \o Rep("0", 14) \o <<"1">>
    /\ Len(rendered) = 1
    /\ rendered[1].repr = "B"
    /\ Len(Lines(stdout)) = 4

(***************************************************************************)
(* C9: detailed binary bit grouping.  Each bit-group line shows its 32     *)
(* bits most significant first, '1' exactly when the bit is set, with one  *)
(* space after every bit whose index is a multiple of 4: 8 groups of 4 bit *)
(* characters, each group (the last included) followed by one space, 40    *)
(* characters after the label or indent.                                   *)
(***************************************************************************)
\* the 40 characters after the 5-character label or indent show bits
\* top..top-31 in 8 groups of 4 bits and a space
GroupedLine(line, value, top) ==
    /\ Len(line) = 45
    /\ \A g \in 0..7 :
          /\ line[5 + 5 * g + 5] = " "
          /\ \A j \in 0..3 :
                LET i == top - (4 * g + j)
                    c == line[5 + 5 * g + j + 1]
                IN /\ c \in {"0", "1"}
                   /\ (c = "1") <=> BitSet(value, i)
                   /\ (i % 4 = 0) <=> (j = 3)

C9_DetailedBitGrouping ==
    \A n \in DetailedBinary :
        LET ls == Lines(rendered[n].out)
        IN IF cfg.format = "U64"
           THEN /\ Len(ls) >= 3
                /\ GroupedLine(ls[1], cfg.value, 63)
                /\ GroupedLine(ls[3], cfg.value, 31)
           ELSE /\ Len(ls) >= 1
                /\ GroupedLine(ls[1], cfg.value, 31)

C9_Witness ==
    /\ pc = "exit"
    /\ exitCode = 0
    /\ ~cfg.simplified
    /\ ~argv.format.given
    /\ argv.value.tok = <<"4", "2">>
    /\ Len(rendered) = 1
    /\ rendered[1].repr = "B"
    /\ SubSeq(Lines(stdout)[1], 36, 45)
           = <<"0", "0", "1", "0", " ", "1", "0", "1", "0", " ">>
    /\ Words(Lines(stdout)[2]) = LowLabels

(***************************************************************************)
(* Vocabulary of the command-line properties.                              *)
(***************************************************************************)
FormatToken == IF argv.format.given THEN argv.format.tok ELSE DefaultFormat
ReprToken == IF argv.repr.given THEN argv.repr.tok ELSE DefaultRepr

FormatParses == Format_from_str(FormatToken).ok
ReprParses == EnumSetParser_parse_ref(ReprToken, ",").ok
LiteralParses == argv.value.given /\ MultiReprU64Parser_parse_ref(argv.value.tok).ok

\* every argument of the command line parsed, the literal being there
AllParsed == FormatParses /\ ReprParses /\ LiteralParses

RenderedOrder == [k \in 1..Len(rendered) |-> rendered[k].repr]

(***************************************************************************)
(* C5: parsing fully precedes rendering.  No representation line is        *)
(* written before the whole command line has been validated; if format,    *)
(* representation list or literal is invalid, or the literal is missing,   *)
(* the process ends with a non-zero exit status and nothing on standard    *)
(* output; it exits 0 only when every argument parsed.                     *)
(***************************************************************************)
C5_ParsingPrecedesRendering ==
    /\ rendered # <<>> => (AllParsed /\ pc # "start")
    /\ (pc = "exit" /\ ~AllParsed) => (exitCode # 0 /\ stdout = <<>>)
    /\ (pc = "exit" /\ exitCode = 0) => AllParsed

(***************************************************************************)
(* C5, amended: the same, but for a command line that asks for help or for *)
(* the version.  Such a run writes the help or version text, and no        *)
(* representation line, to standard output and exits 0 whether or not the  *)
(* literal is there, unless a bad value is met first.                      *)
(***************************************************************************)
C5_ParsingPrecedesRenderingButForHelp ==
    /\ rendered # <<>> => (AllParsed /\ pc # "start" /\ argv.info = "none")
    /\ pc = "start" => (stdout = <<>> /\ exitCode = -1)
    /\ (pc = "exit" /\ ~AllParsed /\ argv.info = "none")
          => (exitCode = 2 /\ stdout = <<>>)
    /\ (pc = "exit" /\ exitCode = 0) => (AllParsed \/ argv.info # "none")
    /\ (pc = "exit" /\ argv.info # "none") =>
          \/ exitCode = 0 /\ rendered = <<>> /\ stdout \in {HelpText, VersionText}
          \/ exitCode = 2 /\ stdout = <<>> /\ ~(FormatParses /\ ReprParses
                                                /\ (argv.value.given => LiteralParses))

C5_Witness ==
    /\ pc = "exit"
    /\ argv.info = "none"
    /\ argv.value = Arg(<<"0", "b", "1", "2">>)
    /\ FormatParses
    /\ ReprParses
    /\ exitCode = 2
    /\ stdout = <<>>

(***************************************************************************)
(* C6: the display order is consistent.  The order in which main emits the *)
(* requested representations is determined by the input alone, either the  *)
(* fixed order h, d, b or the order of the tokens on the command line, so  *)
(* that two runs with the same arguments print the same.                   *)
(***************************************************************************)
Requested ==
    {r \in Representation :
        \E i \in 1..Len(split(ReprToken, ",")) :
            eq_ignore_ascii_case(split(ReprToken, ",")[i], ReprName(r))}

\* the members of a set in the order of a sequence that holds them all
InOrderOf(seq, set) ==
    LET keep == {i \in 1..Len(seq) :
                    seq[i] \in set /\ \A j \in 1..(i - 1) : seq[j] # seq[i]}
        at(k) == CHOOSE i \in keep : Cardinality({j \in keep : j < i}) = k - 1
    IN [k \in 1..Cardinality(keep) |-> seq[at(k)]]

FixedOrder == InOrderOf(<<"H", "D", "B">>, Requested)

InputOrder ==
    LET toks == split(ReprToken, ",")
    IN InOrderOf([i \in 1..Len(toks) |-> Representation_from_str(toks[i], TRUE).val],
                 Requested)

IsPrefix(s, t) == Len(s) <= Len(t) /\ SubSeq(t, 1, Len(s)) = s

C6_DisplayOrderDetermined ==
    ReprParses =>
        \/ IsPrefix(RenderedOrder, FixedOrder)
        \/ IsPrefix(RenderedOrder, InputOrder)

(***************************************************************************)
(* C7: the representation list parser maps each comma-separated token,     *)
(* whatever its case, to one of b, d, h, fails when a token (an empty one  *)
(* included) is not one of them, and collapses duplicates; on success main *)
(* renders each distinct requested representation exactly once and none    *)
(* that was not requested.                                                 *)
(***************************************************************************)
KnownToken(t) == Len(t) = 1 /\ t[1] \in {"b", "B", "d", "D", "h", "H"}

AllKnown == \A i \in 1..Len(split(ReprToken, ",")) : KnownToken(split(ReprToken, ",")[i])

C7_RepresentationList ==
    /\ (pc # "start" /\ argv.info = "none" /\ ~AllKnown) => Refused
    /\ (pc # "start" /\ argv.info = "none" /\ AllKnown /\ FormatParses /\ LiteralParses)
          => (Decoded /\ cfg.representation = Requested)
    /\ \A m, n \in 1..Len(rendered) : rendered[m].repr = rendered[n].repr => m = n
    /\ \A n \in 1..Len(rendered) : rendered[n].repr \in Requested
    /\ (pc = "exit" /\ exitCode = 0 /\ argv.info = "none")
          => {rendered[n].repr : n \in 1..Len(rendered)} = Requested

C7_Witness ==
    /\ pc = "exit"
    /\ exitCode = 0
    /\ argv.repr = Arg(<<"h", ",", "H", ",", "h">>)
    /\ ~cfg.simplified
    /\ Len(rendered) = 1
    /\ rendered[1].repr = "H"
    /\ Len(Lines(stdout)) = 1
    /\ SubSeq(stdout, 1, 5) = HexLabel

(***************************************************************************)
(* C10: the bit width limits only the binary view.  With format=u32 the    *)
(* simplified and the detailed binary output show exactly the low 32 bits  *)
(* of the value, without error or warning, while the decimal and           *)
(* hexadecimal outputs of the same run show the whole 64-bit value; the    *)
(* literal is never refused for exceeding the selected width.              *)
(***************************************************************************)
Low32(v) == <<v[1], v[2], 0, 0>>

\* the number a rendered entry shows, decoded back from its text
ShownValue(e) ==
    LET ls == Lines(e.out)
        text == IF cfg.simplified THEN ls[1] ELSE Squeezed(Skip(ls[1], 5))
        prefix == CASE e.repr = "B" -> BinaryPrefix
                    [] e.repr = "H" -> HexPrefix
                    [] e.repr = "D" -> <<>>
    IN MultiReprU64Parser_parse_ref(prefix \o text)

C10_WidthLimitsOnlyBinary ==
    /\ (pc # "start" /\ argv.info = "none" /\ LiteralParses /\ FormatParses /\ ReprParses)
          => Decoded
    /\ (pc = "exit" /\ argv.info = "none" /\ AllParsed)
          => (exitCode = 0 /\ Len(rendered) = Cardinality(Requested))
    /\ AskedWidth = 32 =>
          \A n \in 1..Len(rendered) :
              LET e == rendered[n]
              IN /\ Len(Lines(e.out)) = (IF e.repr = "B" /\ ~cfg.simplified THEN 2 ELSE 1)
                 /\ e.repr = "B" =>
                       /\ Len(IF cfg.simplified THEN Lines(e.out)[1]
                              ELSE Squeezed(Skip(Lines(e.out)[1], 5))) = 32
                       /\ ShownValue(e) = Ok(Low32(cfg.value))
                 /\ e.repr \in {"D", "H"} => ShownValue(e) = Ok(cfg.value)

C10_Witness ==
    /\ pc = "exit"
    /\ exitCode = 0
    /\ AskedWidth = 32
    /\ argv.value = Arg(<<"0", "x">> \o Rep("f", 8) \o Rep("0", 6) \o <<"2", "a">>)
    /\ Len(rendered) = 3
    /\ \A n \in 1..3 :
          rendered[n].repr = "B" <=> ShownValue(rendered[n]) = Ok(<<42, 0, 0, 0>>)
    /\ \E n \in 1..3 : ShownValue(rendered[n]) = Ok(<<42, 0, 65535, 65535>>)

====
